---- MODULE Spec2Model ----
(***************************************************************************)
(* The Wishlist page of shophub-wishlist (src/src/pages/Wishlist.jsx) as a *)
(* state machine: the module-level state (logicalErrorCounter,             *)
(* permissionDiagnosticsSentFor), the component state (simulateFailure,    *)
(* canEdit), localStorage, window.zipy, the props the shell passes in, and *)
(* one action per event handler.  Every handler is followed by the         *)
(* re-render React performs for the state or props it changed.             *)
(***************************************************************************)
EXTENDS Naturals, Sequences, FiniteSets, TLC

VARIABLES
    host,                 \* window.__SHOPHUB_APP__
    localStorage,         \* storage key -> stored text
    storageFails,         \* localStorage access throws (disabled / quota)
    stableNotifier,       \* the shell passes the same showError function on every render
    itemsShape,           \* the items prop: "undefined", "null" or "array"
    items,                \* ids of the entries of the items prop (owned by the shell)
    currentUser,          \* the currentUser prop
    simulateFailure,      \* useState in Wishlist
    page,                 \* "rendered" or "crashed" (render threw, tree unmounted)
    logicalErrorCounter,  \* module-level counter
    errorLog,             \* codes passed to console.error by the interceptor, in order
    pending,              \* addToCart promises not yet settled, by product id
    inst,                 \* per rendered item: the effect dependencies React remembers
    lastEvent,            \* what the most recent handler did
    zipy,                 \* window.zipy, the diagnostic sink: "absent" or "present"
    permissionDiagnosticsSentFor,  \* module-level Set of user keys
    diagnostics,          \* missing/invalid-permissions diagnostics of this page load, in order
    canEdit,              \* useMemo(() => canUserEdit(currentUser), [currentUser])
    moveRemovals          \* per product: removeFromWishlist calls made by handleMoveToCart

vars == << host, localStorage, storageFails, stableNotifier, itemsShape, items,
           currentUser, simulateFailure, page, logicalErrorCounter, errorLog,
           pending, inst, lastEvent, zipy, permissionDiagnosticsSentFor,
           diagnostics, canEdit, moveRemovals >>

\* What stays as it is when currentUser is the object it was.
resolver == << zipy, permissionDiagnosticsSentFor, diagnostics, canEdit >>

----------------------------------------------------------------------------
(* Bounds of the model *)

MaxCounter == 6     \* blocked clicks per page load that the model follows
MaxPending == 2     \* addToCart calls in flight at once
MaxTextLen == 4     \* lexemes of a permissions string

----------------------------------------------------------------------------
(* Values *)

Undefined == "undefined"            \* a product without an id field
ProductIds == {"p1", "p2", "", Undefined}

FAIL_MODE_KEY == "ecommerce_fail_mode"
FAIL_KEY == "shophub:wishlist:simulateFailure:v1"
StorageKeys == {FAIL_MODE_KEY, FAIL_KEY}

NoEntry == "<null>"                 \* getItem returns null
StoredTexts == {NoEntry, "true", "false", "0", "{oops"}

LOGICAL_ERRORS == << "LOGIC_001", "LOGIC_002", "LOGIC_003", "LOGIC_004", "LOGIC_005" >>

Hosts == {"admin", "storefront", Undefined}

Sinks == {"absent", "present"}

\* A JavaScript string is the sequence of its lexemes: each word one lexeme,
\* each comma and each blank one lexeme.  "EDIT, edit" is
\* << "EDIT", ",", " ", "edit" >> and the empty string is << >>.
Comma == ","
Blank == " "
Words == {"EDIT", "edit", "WISHLIST_DELETE"}
Lexemes == Words \cup {Comma, Blank}

\* An element of an array or of a Set: a string, or a value of another type.
StringMember(text) == [type |-> "string", text |-> text]
Name(word) == StringMember(<< word >>)
NumberMember == [type |-> "number", text |-> << >>]
PairMember == [type |-> "object", text |-> << >>]

\* A value of the permissions field.  shape is what the value is: "absent"
\* (undefined), "null", "array", "string", "set" (a Set), "map" (a Map),
\* "weakset" (has a has method, is not iterable), "throwingSet" (has a has
\* method, its iterator throws), "zero" (0), "number" (7), "object" ({}).
\* members are the elements of an array or Set and the keys of a Map; text is
\* the value of a string.
Permissions(shape, members, text) ==
    [shape |-> shape, members |-> members, text |-> text]

NoPermissions == Permissions("absent", {}, << >>)
ArrayOf(members) == Permissions("array", members, << >>)
CommaString(text) == Permissions("string", {}, text)
SetOf(members) == Permissions("set", members, << >>)

\* The words of a set joined by commas.
RECURSIVE Join(_)
Join(names) ==
    IF names = {} THEN << >>
    ELSE LET n == CHOOSE x \in names : TRUE
         IN  IF names = {n} THEN << n >> ELSE << n, Comma >> \o Join(names \ {n})

NoUser ==
    [present |-> FALSE, id |-> Undefined, email |-> Undefined,
     permissions |-> NoPermissions]

UserRecord(id, email, permissions) ==
    [present |-> TRUE, id |-> id, email |-> email, permissions |-> permissions]

\* A user with an id whose permissions field names the given words in the
\* given shape.
User(id, shape, names) ==
    UserRecord(id, Undefined,
               IF shape = "array" THEN ArrayOf({Name(n) : n \in names})
               ELSE IF shape = "string" THEN CommaString(Join(names))
               ELSE NoPermissions)

Users ==
    { NoUser,
      User("u1", "array", {"WISHLIST_REMOVE", "WISHLIST_DELETE"}),
      User("u2", "array", {"WISHLIST_REMOVE"}),
      User("u3", "array", {"WISHLIST_DELETE"}),
      User("u4", "string", {"WISHLIST_REMOVE", "WISHLIST_DELETE"}),
      User("u5", "absent", {}) }

InitialItems == { {}, {"p1", "p2"}, {"p1", ""}, {"p1", "", Undefined} }

----------------------------------------------------------------------------
(* localStorage and the JSON encoding of the persisted flags *)

\* JSON.parse on a stored text: the value kinds the page distinguishes.
JSONParse(text) ==
    CASE text = "true"  -> "true"
      [] text = "false" -> "false"
      [] text = "0"     -> "number"
      [] OTHER          -> "SyntaxError"

JSONStringify(b) == IF b THEN "true" ELSE "false"

\* The read with `return true` in its catch.
ReadFlag_CatchTrue(key) ==
    IF storageFails THEN TRUE
    ELSE LET raw  == localStorage[key]
             text == IF raw = NoEntry \/ raw = "" THEN "false" ELSE raw
         IN  IF JSONParse(text) = "SyntaxError" THEN TRUE
             ELSE JSONParse(text) = "true"

\* JSON.parse(localStorage.getItem(key) || 'false') === true, inside try/catch.
ReadFlag(key) ==
    IF storageFails THEN FALSE
    ELSE LET raw  == localStorage[key]
             text == IF raw = NoEntry \/ raw = "" THEN "false" ELSE raw
         IN  IF JSONParse(text) = "SyntaxError" THEN FALSE
             ELSE JSONParse(text) = "true"

\* isFailModeOn with `|| 'true'` for a missing entry.
isFailModeOn_DefaultOn ==
    IF storageFails THEN FALSE
    ELSE localStorage[FAIL_MODE_KEY] \in {NoEntry, "", "true"}

isFailModeOn == ReadFlag(FAIL_MODE_KEY)

\* The useState initializer of simulateFailure.
simulateFailureInitial == ReadFlag(FAIL_KEY)

\* The toggle writing the shop-wide fail-mode entry instead of its own.
PersistSimulateFailure_SharedKey(next) ==
    IF storageFails THEN localStorage
    ELSE [localStorage EXCEPT ![FAIL_MODE_KEY] = JSONStringify(next)]

\* The checkbox handler without its setItem.
PersistSimulateFailure_Never(next) == localStorage

\* localStorage.setItem(FAIL_KEY, JSON.stringify(next)) inside try/catch.
PersistSimulateFailure(next) ==
    IF storageFails THEN localStorage
    ELSE [localStorage EXCEPT ![FAIL_KEY] = JSONStringify(next)]

----------------------------------------------------------------------------
(* The click interceptor *)

\* A click event as the interceptor sees it: is its target an Element, does the
\* target have an ancestor-or-self carrying data-skip-logical-error="true", and
\* does it have an ancestor-or-self matching
\* button, [role="button"], a, input[type="button"], input[type="submit"].
ClickEvent(exempt, actionable) ==
    [isElement |-> TRUE, exempt |-> exempt, actionable |-> actionable]

NotBlocked(counter) ==
    [blocked |-> FALSE, prevented |-> FALSE, stopped |-> FALSE,
     counter |-> counter, logged |-> << >>, sink |-> << >>, raised |-> FALSE]

\* window.zipy.logMessage(...); window.zipy.logException(err): the calls that
\* reach the sink, and whether evaluating the statements raised (reading a
\* property of undefined raises a TypeError).
CallSink(sink) ==
    IF sink = "absent"
    THEN [raised |-> TRUE, calls |-> << >>]
    ELSE [raised |-> FALSE, calls |-> << "logMessage", "logException" >>]

\* if (window.zipy) { ... }
GuardedSink(sink) ==
    IF sink # "absent" THEN CallSink(sink) ELSE [raised |-> FALSE, calls |-> << >>]

\* What a blocking call of the interceptor has done when it returns or raises:
\* console.error is reached only if the sink statements did not raise.
Blocking(stopped, counter, entry, toSink) ==
    [blocked |-> TRUE, prevented |-> TRUE, stopped |-> stopped,
     counter |-> counter + 1,
     logged |-> IF toSink.raised THEN << >> ELSE << LOGICAL_ERRORS[entry] >>,
     sink |-> toSink.calls, raised |-> toSink.raised]

\* The interceptor calling the sink without testing that it is there.
maybeInjectLogicalError_NoGuard(event, counter) ==
    IF ~isFailModeOn \/ ~event.isElement \/ event.exempt \/ ~event.actionable
    THEN NotBlocked(counter)
    ELSE Blocking(TRUE, counter, (counter % Len(LOGICAL_ERRORS)) + 1, CallSink(zipy))

\* The interceptor without event.stopPropagation().
maybeInjectLogicalError_NoStop(event, counter) ==
    IF ~isFailModeOn \/ ~event.isElement \/ event.exempt \/ ~event.actionable
    THEN NotBlocked(counter)
    ELSE Blocking(FALSE, counter, (counter % Len(LOGICAL_ERRORS)) + 1,
                  GuardedSink(zipy))

\* The interceptor incrementing the counter before it picks the entry.
maybeInjectLogicalError_IncrementFirst(event, counter) ==
    IF ~isFailModeOn \/ ~event.isElement \/ event.exempt \/ ~event.actionable
    THEN NotBlocked(counter)
    ELSE Blocking(TRUE, counter, ((counter + 1) % Len(LOGICAL_ERRORS)) + 1,
                  GuardedSink(zipy))

\* The interceptor without the data-skip-logical-error test.
maybeInjectLogicalError_NoSkip(event, counter) ==
    IF ~isFailModeOn \/ ~event.isElement \/ ~event.actionable
    THEN NotBlocked(counter)
    ELSE Blocking(TRUE, counter, (counter % Len(LOGICAL_ERRORS)) + 1,
                  GuardedSink(zipy))

\* maybeInjectLogicalError(event, 'wishlist') with the module counter at `counter`.
maybeInjectLogicalError(event, counter) ==
    IF ~isFailModeOn THEN NotBlocked(counter)
    ELSE IF ~event.isElement THEN NotBlocked(counter)
    ELSE IF event.exempt THEN NotBlocked(counter)
    ELSE IF ~event.actionable THEN NotBlocked(counter)
    ELSE Blocking(TRUE, counter, (counter % Len(LOGICAL_ERRORS)) + 1,
                  GuardedSink(zipy))

----------------------------------------------------------------------------
(* The permission resolver: normalizePermissions and canUserEdit *)

Range(seq) == {seq[i] : i \in 1..Len(seq)}

\* text.split(','): the pieces of the text between its commas, in order.
RECURSIVE split(_)
split(text) ==
    IF \A i \in 1..Len(text) : text[i] # Comma
    THEN << text >>
    ELSE LET i == CHOOSE k \in 1..Len(text) :
                     text[k] = Comma /\ \A j \in 1..(k - 1) : text[j] # Comma
         IN  << SubSeq(text, 1, i - 1) >> \o split(SubSeq(text, i + 1, Len(text)))

RECURSIVE trimStart(_)
trimStart(text) ==
    IF text # << >> /\ Head(text) = Blank THEN trimStart(Tail(text)) ELSE text

RECURSIVE trimEnd(_)
trimEnd(text) ==
    IF text # << >> /\ text[Len(text)] = Blank
    THEN trimEnd(SubSeq(text, 1, Len(text) - 1))
    ELSE text

\* p.trim()
trim(text) == trimEnd(trimStart(text))

\* !permissions
Falsy(permissions) ==
    \/ permissions.shape \in {"absent", "null", "zero"}
    \/ permissions.shape = "string" /\ permissions.text = << >>

\* permissionsRaw == null
IsNullish(permissions) == permissions.shape \in {"absent", "null"}

\* typeof permissions === 'object' && typeof permissions.has === 'function'
HasHasMethod(permissions) ==
    permissions.shape \in {"set", "map", "weakset", "throwingSet"}

\* Array.from(permissions): the elements of a Set, the [key, value] pairs of
\* a Map, nothing for an object that is not iterable; raises when the iterator
\* raises.
ArrayFrom(permissions) ==
    [raised |-> permissions.shape = "throwingSet",
     value  |-> IF permissions.shape = "set" THEN permissions.members
                ELSE IF permissions.shape = "map" /\ permissions.members # {}
                     THEN {PairMember}
                     ELSE {}]

\* .filter((p) => typeof p === 'string')
OnlyStrings(members) == {m \in members : m.type = "string"}

\* The comma branch without trim.
normalizePermissions_NoTrim(permissions) ==
    IF Falsy(permissions) THEN [raised |-> FALSE, value |-> {}]
    ELSE IF permissions.shape = "array"
    THEN [raised |-> FALSE, value |-> OnlyStrings(permissions.members)]
    ELSE IF permissions.shape = "string"
    THEN [raised |-> FALSE,
          value  |-> { StringMember(t) :
                         t \in Range(split(permissions.text)) \ {<< >>} }]
    ELSE IF HasHasMethod(permissions)
    THEN LET from == ArrayFrom(permissions)
         IN  IF from.raised
             THEN [raised |-> FALSE, value |-> {}]
             ELSE [raised |-> FALSE, value |-> OnlyStrings(from.value)]
    ELSE [raised |-> FALSE, value |-> {}]

\* normalizePermissions(permissions): whether the call raised, and the array
\* it returned as the set of its elements (its callers read only membership
\* and emptiness: includes, length === 0).
normalizePermissions(permissions) ==
    IF Falsy(permissions) THEN [raised |-> FALSE, value |-> {}]
    ELSE IF permissions.shape = "array"
    THEN [raised |-> FALSE, value |-> OnlyStrings(permissions.members)]
    ELSE IF permissions.shape = "string"
    THEN [raised |-> FALSE,
          value  |-> { StringMember(t) :
                         t \in { trim(p) : p \in Range(split(permissions.text)) }
                               \ {<< >>} }]
    ELSE IF HasHasMethod(permissions)
    THEN LET from == ArrayFrom(permissions)
         IN  IF from.raised
             THEN [raised |-> FALSE, value |-> {}]
             ELSE [raised |-> FALSE, value |-> OnlyStrings(from.value)]
    ELSE [raised |-> FALSE, value |-> {}]

\* String(currentUser?.id ?? currentUser?.email ?? 'unknown-user'); ids and
\* emails of the model are strings, which String() returns as they are.
UserKey(user) ==
    IF user.id # Undefined THEN user.id
    ELSE IF user.email # Undefined THEN user.email
    ELSE "unknown-user"

\* The diagnostic of canUserEdit: console.warn, and zipy.logMessage when the
\* sink is there.
Diagnostic(userKey, sink) == [userKey |-> userKey, sink |-> sink = "present"]

\* The condition under which canUserEdit reports the permissions field.
MissingOrInvalid(user) ==
    /\ user.present
    /\ \/ IsNullish(user.permissions)
       \/ normalizePermissions(user.permissions).value = {}

\* canUserEdit comparing without regard to case.
canUserEdit_IgnoreCase(user, sentFor, sink) ==
    LET report == MissingOrInvalid(user) /\ UserKey(user) \notin sentFor
    IN  [value   |-> normalizePermissions(user.permissions).value
                        \cap {Name("EDIT"), Name("edit")} # {},
         sentFor |-> IF report THEN sentFor \cup {UserKey(user)} ELSE sentFor,
         emitted |-> IF report THEN << Diagnostic(UserKey(user), sink) >> ELSE << >>]

\* canUserEdit without the set of keys already reported.
canUserEdit_NoDedup(user, sentFor, sink) ==
    LET report == MissingOrInvalid(user)
    IN  [value   |-> Name("EDIT") \in normalizePermissions(user.permissions).value,
         sentFor |-> IF report THEN sentFor \cup {UserKey(user)} ELSE sentFor,
         emitted |-> IF report THEN << Diagnostic(UserKey(user), sink) >> ELSE << >>]

\* canUserEdit(currentUser) with permissionDiagnosticsSentFor = sentFor and
\* window.zipy = sink: the value returned, the set afterwards and the
\* diagnostics emitted by the call.
canUserEdit(user, sentFor, sink) ==
    LET report == MissingOrInvalid(user) /\ UserKey(user) \notin sentFor
    IN  [value   |-> Name("EDIT") \in normalizePermissions(user.permissions).value,
         sentFor |-> IF report THEN sentFor \cup {UserKey(user)} ELSE sentFor,
         emitted |-> IF report THEN << Diagnostic(UserKey(user), sink) >> ELSE << >>]

----------------------------------------------------------------------------
(* Permissions and the per-item action buttons *)

isAdminHost == host = "admin"

\* hasPermission running the field through normalizePermissions first.
hasPermission_Normalized(user, permission) ==
    /\ user.present
    /\ Name(permission) \in normalizePermissions(user.permissions).value

\* Array.isArray(user?.permissions) && permissions.includes(permission)
hasPermission(user, permission) ==
    /\ user.present
    /\ user.permissions.shape = "array"
    /\ Name(permission) \in user.permissions.members

\* Boolean(productId)
Truthy(productId) == productId \notin {"", Undefined}

canRemove(adminHost, productId, user) ==
    Truthy(productId) /\ (~adminHost \/ hasPermission(user, "WISHLIST_REMOVE"))

canDelete(user) == hasPermission(user, "WISHLIST_DELETE")

\* RemoveButton asking for the permission in every host.
RemoveButton_PermissionEverywhere(adminHost, productId, user) ==
    IF Truthy(productId) /\ hasPermission(user, "WISHLIST_REMOVE")
    THEN "Remove" ELSE "null"

\* What RemoveButton returns: the Remove button or null.
RemoveButton(adminHost, productId, user) ==
    IF ~Truthy(productId) THEN "null"
    ELSE IF ~adminHost THEN "Remove"
    ELSE IF ~canRemove(adminHost, productId, user) THEN "null"
    ELSE "Remove"

\* The effect of RemoveButton calls showError('Permission denied').
RemoveEffectDenies(adminHost, productId, user) ==
    /\ adminHost
    /\ Truthy(productId)
    /\ ~canRemove(adminHost, productId, user)

\* DeleteButton without the host test.
DeleteButton_NoHostCheck(adminHost, productId, user) ==
    IF ~canDelete(user) THEN "null" ELSE "Delete"

\* What DeleteButton returns: the Delete button or null.
DeleteButton(adminHost, productId, user) ==
    IF ~adminHost THEN "null"
    ELSE IF ~canDelete(user) THEN "null"
    ELSE "Delete"

\* The effect of DeleteButton calls showError('Permission denied').
DeleteEffectDenies(adminHost, user) ==
    /\ adminHost
    /\ ~canDelete(user)

----------------------------------------------------------------------------
(* Rendering *)

\* effectiveItems with a one-entry array [{}] as the placeholder.
effectiveItems_ArrayPlaceholder(sf, shape, its) ==
    IF sf THEN [kind |-> "placeholder", ids |-> {Undefined}, length |-> 1, hasMap |-> TRUE]
    ELSE IF shape = "null" THEN [kind |-> "null", ids |-> {}, length |-> 0, hasMap |-> FALSE]
    ELSE IF shape = "undefined" THEN [kind |-> "array", ids |-> {}, length |-> 0, hasMap |-> TRUE]
    ELSE [kind |-> "array", ids |-> its, length |-> Cardinality(its), hasMap |-> TRUE]

\* effectiveItems returning the items prop whatever the flag.
effectiveItems_NoSubstitution(sf, shape, its) ==
    IF shape = "null" THEN [kind |-> "null", ids |-> {}, length |-> 0, hasMap |-> FALSE]
    ELSE IF shape = "undefined" THEN [kind |-> "array", ids |-> {}, length |-> 0, hasMap |-> TRUE]
    ELSE [kind |-> "array", ids |-> its, length |-> Cardinality(its), hasMap |-> TRUE]

\* useMemo: the items prop (default [] when undefined), or the placeholder
\* { length: 1 }, a plain object that has a length and no map method.
effectiveItems(sf, shape, its) ==
    IF sf THEN [kind |-> "placeholder", ids |-> {}, length |-> 1, hasMap |-> FALSE]
    ELSE IF shape = "null" THEN [kind |-> "null", ids |-> {}, length |-> 0, hasMap |-> FALSE]
    ELSE IF shape = "undefined" THEN [kind |-> "array", ids |-> {}, length |-> 0, hasMap |-> TRUE]
    ELSE [kind |-> "array", ids |-> its, length |-> Cardinality(its), hasMap |-> TRUE]

\* !effectiveItems || effectiveItems.length === 0
isEmpty(eff) == eff.kind = "null" \/ eff.length = 0

\* The render function of Wishlist throws: the non-empty branch calls
\* effectiveItems.map, a TypeError when the value has no map method.
RenderThrows(eff) == ~isEmpty(eff) /\ ~eff.hasMap

\* The products whose cards the render function returns.
RenderedIds(eff) == IF isEmpty(eff) THEN {} ELSE eff.ids

Unmounted ==
    [mounted |-> FALSE, remove |-> "null", delete |-> "null",
     canRemove |-> FALSE, canDelete |-> FALSE,
     removeDenied |-> FALSE, deleteDenied |-> FALSE]

NothingMounted == [id \in ProductIds |-> Unmounted]

RemoveEffectRuns_EveryRender(old, adminHost, productId, user) == TRUE

\* useEffect(..., [isAdminHost, productId, canRemove, showError]) of RemoveButton
\* runs after the commit when the button has just mounted or a dependency differs
\* from the previous render's (isAdminHost and productId are fixed per instance).
RemoveEffectRuns(old, adminHost, productId, user) ==
    \/ ~old.mounted
    \/ old.canRemove # canRemove(adminHost, productId, user)
    \/ ~stableNotifier

\* useEffect(..., [isAdminHost, canDelete, showError]) of DeleteButton.
DeleteEffectRuns(old, user) ==
    \/ ~old.mounted
    \/ old.canDelete # canDelete(user)
    \/ ~stableNotifier

\* One render pass of a mounted Wishlist and the commit that follows it: the
\* page status, per item the buttons rendered and what React remembers of the
\* effects, and the buttons whose effect called showError('Permission denied')
\* in this commit.
Commit(sf, shape, its, user, old) ==
    LET eff  == effectiveItems(sf, shape, its)
        ids  == RenderedIds(eff)
        adm  == isAdminHost
        runR(id) == RemoveEffectRuns(old[id], adm, id, user)
        runD(id) == DeleteEffectRuns(old[id], user)
    IN  IF RenderThrows(eff)
        THEN [page |-> "crashed", inst |-> NothingMounted, denied |-> {}]
        ELSE [page |-> "rendered",
              inst |-> [id \in ProductIds |->
                          IF id \notin ids THEN Unmounted
                          ELSE [mounted      |-> TRUE,
                                remove       |-> RemoveButton(adm, id, user),
                                delete       |-> DeleteButton(adm, id, user),
                                canRemove    |-> canRemove(adm, id, user),
                                canDelete    |-> canDelete(user),
                                removeDenied |-> IF runR(id)
                                                 THEN RemoveEffectDenies(adm, id, user)
                                                 ELSE old[id].removeDenied,
                                deleteDenied |-> IF runD(id)
                                                 THEN DeleteEffectDenies(adm, user)
                                                 ELSE old[id].deleteDenied]],
              denied |-> { << "remove", id >> : id \in
                              {i \in ids : runR(i) /\ RemoveEffectDenies(adm, i, user)} }
                         \cup
                         { << "delete", id >> : id \in
                              {i \in ids : runD(i) /\ DeleteEffectDenies(adm, user)} }]

\* The re-render a handler causes; a crashed page has no tree left to render.
Rerendered(sf, shape, its, user) ==
    IF page = "crashed"
    THEN [page |-> "crashed", inst |-> NothingMounted, denied |-> {}]
    ELSE Commit(sf, shape, its, user, inst)

Call(fn, arg) == [fn |-> fn, arg |-> arg]

\* The record of one handler: the operation, the product it was about, what the
\* interceptor did to the event, the prop callbacks called in order, the
\* Permission-denied effects of the commit that followed, and whether the
\* promise of an async handler rejected.
Event(op, id, icpt, calls, denied) ==
    [op |-> op, id |-> id, blocked |-> icpt.blocked, prevented |-> icpt.prevented,
     stopped |-> icpt.stopped, logged |-> icpt.logged, calls |-> calls,
     denied |-> denied, click |-> FALSE, exempt |-> FALSE, actionable |-> FALSE,
     rejection |-> FALSE, sink |-> icpt.sink, raised |-> icpt.raised]

\* The record of a click: the same, with what the target's ancestors are.
ClickRecord(op, id, event, icpt, calls, denied) ==
    [Event(op, id, icpt, calls, denied) EXCEPT
        !.click = TRUE, !.exempt = event.exempt, !.actionable = event.actionable]

----------------------------------------------------------------------------
(* Initial states: a page load *)

\* A page load with the environment drawn from the given sets.
Load(hosts, stores, fails, notifiers, shapes, lists, users, sinks) ==
    /\ host \in hosts
    /\ zipy \in sinks
    /\ localStorage \in stores
    /\ storageFails \in fails
    /\ stableNotifier \in notifiers
    /\ itemsShape \in shapes
    /\ items \in (IF itemsShape = "array" THEN lists ELSE {{}})
    /\ currentUser \in users
    /\ simulateFailure = simulateFailureInitial
    /\ logicalErrorCounter = 0
    /\ errorLog = << >>
    /\ pending = << >>
    /\ moveRemovals = [id \in ProductIds |-> 0]
    /\ LET e == canUserEdit(currentUser, {}, zipy)
       IN  /\ permissionDiagnosticsSentFor = e.sentFor
           /\ diagnostics = e.emitted
           /\ canEdit = e.value
    /\ LET c == Commit(simulateFailure, itemsShape, items, currentUser, NothingMounted)
       IN  /\ page = c.page
           /\ inst = c.inst
           /\ lastEvent = Event("mount", Undefined, NotBlocked(0), << >>, c.denied)

EmptyStorage == [k \in StorageKeys |-> NoEntry]
FullAccess == User("u1", "array", {"WISHLIST_REMOVE", "WISHLIST_DELETE"})

----------------------------------------------------------------------------
(* The callbacks the shell passes in, and what the shell does when called *)

\* removeFromWishlist(id): the shell drops the entry and passes the new list.
removeFromWishlist(its, id) == its \ {id}

\* clearWishlist(): the shell empties the list.
clearWishlist(its) == {}

----------------------------------------------------------------------------
(* Handlers *)

\* The continuations of handleMoveToCart after its await.
SettleOps == {"addToCartResolved", "addToCartRejected"}

\* The state after a handler: what it assigned, the counter and log as the
\* interceptor left them, and the re-render React performs when the component
\* state or the items prop changed.
Step(record, icpt, sf, store, its, pend) ==
    LET c == IF sf # simulateFailure \/ its # items
             THEN Rerendered(sf, itemsShape, its, currentUser)
             ELSE [page |-> page, inst |-> inst, denied |-> {}]
    IN  /\ simulateFailure' = sf
        /\ localStorage' = store
        /\ items' = its
        /\ pending' = pend
        /\ logicalErrorCounter' = icpt.counter
        /\ errorLog' = errorLog \o icpt.logged
        /\ page' = c.page
        /\ inst' = c.inst
        /\ lastEvent' = [record EXCEPT !.denied = c.denied]
        /\ moveRemovals' =
              [id \in ProductIds |->
                 moveRemovals[id] +
                 (IF record.op \in SettleOps
                  THEN Cardinality({k \in 1..Len(record.calls) :
                                      record.calls[k] = Call("removeFromWishlist", id)})
                  ELSE 0)]
        /\ UNCHANGED << host, storageFails, stableNotifier, itemsShape, currentUser,
                        resolver >>

\* A click on a button: onClickCapture of the outer Box runs first; the
\* button's own onClick runs only if the event was not stopped on the way.
Click(op, id, event, calls, sf, store, its, pend) ==
    LET icpt == maybeInjectLogicalError(event, logicalErrorCounter)
    IN  /\ page = "rendered"
        /\ icpt.counter <= MaxCounter
        /\ IF icpt.stopped
           THEN Step(ClickRecord(op, id, event, icpt, << >>, {}), icpt,
                     simulateFailure, localStorage, items, pending)
           ELSE Step(ClickRecord(op, id, event, icpt, calls, {}), icpt,
                     sf, store, its, pend)

CurrentItems == effectiveItems(simulateFailure, itemsShape, items)

\* What the committed tree shows: the Diagnostics panel with its checkbox
\* (admin host only), the empty-state view, an enabled Clear button.
CheckboxRendered == page = "rendered" /\ isAdminHost
EmptyStateShown == page = "rendered" /\ isEmpty(CurrentItems)
ClearEnabled == page = "rendered" /\ ~isEmpty(CurrentItems)

\* The items prop as a list: [] for undefined (the default) and for null.
RealList == IF itemsShape = "array" THEN items ELSE {}

\* The Diagnostics checkbox, inside the panel marked data-skip-logical-error.
\* Whether the element the Checkbox component renders also matches the
\* button selector is the component library's business: either may be the case.
ClickCheckbox ==
    /\ isAdminHost
    /\ \E actionable \in BOOLEAN :
         LET next == ~simulateFailure
         IN  Click("checkbox", Undefined, ClickEvent(TRUE, actionable), << >>,
                   next, PersistSimulateFailure(next), items, pending)

\* An element that is no button and has none above it: a heading, a card, the
\* text of the Diagnostics panel (exempt, admin host only).
ClickPlain ==
    \E exempt \in BOOLEAN :
        /\ exempt => isAdminHost
        /\ Click("plain", Undefined, ClickEvent(exempt, FALSE), << >>,
                 simulateFailure, localStorage, items, pending)

ClickContinueShopping ==
    /\ page = "rendered"
    /\ Click("continueShopping", Undefined, ClickEvent(FALSE, TRUE),
             << Call("navigate", "/products") >>,
             simulateFailure, localStorage, items, pending)

\* Shop now, the button of the empty-state view.
ClickShopNow ==
    /\ isEmpty(CurrentItems)
    /\ Click("shopNow", Undefined, ClickEvent(FALSE, TRUE),
             << Call("navigate", "/products") >>,
             simulateFailure, localStorage, items, pending)

\* Clear, disabled while the view is empty.
ClickClear ==
    /\ ~isEmpty(CurrentItems)
    /\ Click("clear", Undefined, ClickEvent(FALSE, TRUE),
             << Call("clearWishlist", Undefined),
                Call("showSuccess", "Wishlist cleared") >>,
             simulateFailure, localStorage, clearWishlist(items), pending)

\* The Remove button of a card, where RemoveButton rendered one.
ClickRemove(id) ==
    /\ inst[id].remove = "Remove"
    /\ Click("remove", id, ClickEvent(FALSE, TRUE),
             << Call("removeFromWishlist", id) >>,
             simulateFailure, localStorage, removeFromWishlist(items, id), pending)

\* The Delete button of a card, where DeleteButton rendered one; onDelete is
\* removeFromWishlist as well.
ClickDelete(id) ==
    /\ inst[id].delete = "Delete"
    /\ Click("delete", id, ClickEvent(FALSE, TRUE),
             << Call("removeFromWishlist", id) >>,
             simulateFailure, localStorage, removeFromWishlist(items, id), pending)

\* handleMoveToCart up to its await: addToCart(product) is called and the
\* handler is suspended on the promise.
ClickMoveToCart(id) ==
    /\ inst[id].mounted
    /\ Len(pending) < MaxPending
    /\ Click("moveToCart", id, ClickEvent(FALSE, TRUE),
             << Call("addToCart", id) >>,
             simulateFailure, localStorage, items, Append(pending, id))

Without(seq, i) == SubSeq(seq, 1, i - 1) \o SubSeq(seq, i + 1, Len(seq))

\* handleMoveToCart with the removal in a finally block.
handleMoveToCart_RemoveAlways(outcome, id, its) ==
    IF outcome = "fulfilled"
    THEN [calls |-> << Call("removeFromWishlist", id),
                       Call("showSuccess", "Moved to cart") >>,
          items |-> removeFromWishlist(its, id), rejects |-> FALSE]
    ELSE [calls |-> << Call("showError", "Failed to move item to cart"),
                       Call("removeFromWishlist", id) >>,
          items |-> removeFromWishlist(its, id), rejects |-> FALSE]

\* handleMoveToCart after the await: the calls it makes, the list the shell
\* holds afterwards, and whether the handler's own promise rejects (the catch
\* block takes every rejection of addToCart), for a promise that fulfilled or
\* rejected.
handleMoveToCart(outcome, id, its) ==
    IF outcome = "fulfilled"
    THEN [calls |-> << Call("removeFromWishlist", id),
                       Call("showSuccess", "Moved to cart") >>,
          items |-> removeFromWishlist(its, id), rejects |-> FALSE]
    ELSE [calls |-> << Call("showError", "Failed to move item to cart") >>,
          items |-> its, rejects |-> FALSE]

Settle(i, outcome, op) ==
    LET h == handleMoveToCart(outcome, pending[i], items)
        quiet == NotBlocked(logicalErrorCounter)
    IN  Step([Event(op, pending[i], quiet, h.calls, {}) EXCEPT !.rejection = h.rejects],
             quiet,
             simulateFailure, localStorage, h.items, Without(pending, i))

\* The promise addToCart returned fulfils.
AddToCartResolves(i) ==
    /\ i \in 1..Len(pending)
    /\ Settle(i, "fulfilled", "addToCartResolved")

\* The promise addToCart returned rejects.
AddToCartRejects(i) ==
    /\ i \in 1..Len(pending)
    /\ Settle(i, "rejected", "addToCartRejected")

----------------------------------------------------------------------------
(* The environment *)

\* The shell (or another page of it) writes the shop-wide fail-mode entry.
ShellSetFailMode(text) ==
    /\ ~storageFails
    /\ localStorage[FAIL_MODE_KEY] # text
    /\ localStorage' = [localStorage EXCEPT ![FAIL_MODE_KEY] = text]
    /\ lastEvent' = Event("shellSetFailMode", Undefined,
                          NotBlocked(logicalErrorCounter), << >>, {})
    /\ UNCHANGED << host, storageFails, stableNotifier, itemsShape, items,
                    currentUser, simulateFailure, page, logicalErrorCounter,
                    errorLog, pending, inst, resolver, moveRemovals >>

\* The entry of the simulate-failure flag is written from outside the page
\* (another tab of the shop, the developer tools).
StorageEdited(text) ==
    /\ ~storageFails
    /\ localStorage[FAIL_KEY] # text
    /\ localStorage' = [localStorage EXCEPT ![FAIL_KEY] = text]
    /\ lastEvent' = Event("storageEdited", Undefined,
                          NotBlocked(logicalErrorCounter), << >>, {})
    /\ UNCHANGED << host, storageFails, stableNotifier, itemsShape, items,
                    currentUser, simulateFailure, page, logicalErrorCounter,
                    errorLog, pending, inst, resolver, moveRemovals >>

\* The render pass of a mounted page that was given the object u as
\* currentUser: useMemo calls canUserEdit again, then the tree is rendered.
RenderWithUser(op, u) ==
    /\ LET e == IF page = "rendered"
                THEN canUserEdit(u, permissionDiagnosticsSentFor, zipy)
                ELSE [value |-> canEdit, sentFor |-> permissionDiagnosticsSentFor,
                      emitted |-> << >>]
       IN  /\ permissionDiagnosticsSentFor' = e.sentFor
           /\ diagnostics' = diagnostics \o e.emitted
           /\ canEdit' = e.value
    /\ LET c == Rerendered(simulateFailure, itemsShape, items, u)
       IN  /\ currentUser' = u
           /\ page' = c.page
           /\ inst' = c.inst
           /\ lastEvent' = Event(op, Undefined,
                                 NotBlocked(logicalErrorCounter), << >>, c.denied)
    /\ UNCHANGED << host, localStorage, storageFails, stableNotifier, itemsShape,
                    items, simulateFailure, logicalErrorCounter, errorLog, pending,
                    zipy, moveRemovals >>

\* The shell passes another currentUser.
ShellSetUser(u) ==
    /\ u # currentUser
    /\ RenderWithUser("shellSetUser", u)

\* The shell passes a new object with the content currentUser had.
ShellRefreshUser ==
    /\ page = "rendered"
    /\ RenderWithUser("shellRefreshUser", currentUser)

\* The shell re-renders the page with the props it had.
ParentRerender ==
    /\ page = "rendered"
    /\ LET c == Rerendered(simulateFailure, itemsShape, items, currentUser)
       IN  /\ page' = c.page
           /\ inst' = c.inst
           /\ lastEvent' = Event("rerender", Undefined,
                                 NotBlocked(logicalErrorCounter), << >>, c.denied)
    /\ UNCHANGED << host, localStorage, storageFails, stableNotifier, itemsShape,
                    items, currentUser, simulateFailure, logicalErrorCounter,
                    errorLog, pending, resolver, moveRemovals >>

\* A reload: the module is evaluated again, the component mounts again.
Reload ==
    /\ simulateFailure' = simulateFailureInitial
    /\ logicalErrorCounter' = 0
    /\ errorLog' = << >>
    /\ pending' = << >>
    /\ moveRemovals' = [id \in ProductIds |-> 0]
    /\ LET e == canUserEdit(currentUser, {}, zipy)
       IN  /\ permissionDiagnosticsSentFor' = e.sentFor
           /\ diagnostics' = e.emitted
           /\ canEdit' = e.value
    /\ LET c == Commit(simulateFailureInitial, itemsShape, items, currentUser,
                       NothingMounted)
       IN  /\ page' = c.page
           /\ inst' = c.inst
           /\ lastEvent' = Event("mount", Undefined, NotBlocked(0), << >>, c.denied)
    /\ UNCHANGED << host, localStorage, storageFails, stableNotifier, itemsShape,
                    items, currentUser, zipy >>

Clicks ==
    \/ ClickCheckbox
    \/ ClickPlain
    \/ ClickContinueShopping
    \/ ClickShopNow
    \/ ClickClear
    \/ \E id \in ProductIds : ClickRemove(id)
    \/ \E id \in ProductIds : ClickDelete(id)
    \/ \E id \in ProductIds : ClickMoveToCart(id)

Settles ==
    \/ \E i \in 1..MaxPending : AddToCartResolves(i)
    \/ \E i \in 1..MaxPending : AddToCartRejects(i)

----------------------------------------------------------------------------
(* The page under every environment of the model. *)

Init ==
    Load(Hosts, [StorageKeys -> StoredTexts], BOOLEAN, BOOLEAN,
         {"undefined", "null", "array"}, InitialItems, Users, Sinks)

Next ==
    \/ Clicks
    \/ Settles
    \/ \E text \in {"true", "false"} : ShellSetFailMode(text)
    \/ \E text \in {"true", "false"} : StorageEdited(text)
    \/ \E u \in Users : ShellSetUser(u)
    \/ ShellRefreshUser
    \/ ParentRerender
    \/ Reload

Spec == Init /\ [][Next]_vars

----------------------------------------------------------------------------
(* Restrictions of Spec that TLC explores in full: the same page with one    *)
(* part of its environment varied and the handlers that bear on it.  Every   *)
(* behaviour of each is a behaviour of Spec.                                 *)

\* The click interceptor: every host, working and failing storage, every
\* content of the fail-mode entry, every click target.
InitIntercept ==
    Load(Hosts,
         {[EmptyStorage EXCEPT ![FAIL_MODE_KEY] = t] : t \in {NoEntry, "true", "{oops"}},
         BOOLEAN, {TRUE}, {"array"}, {{}, {"p1", "p2"}}, {FullAccess}, {"present"})

NextIntercept ==
    \/ Clicks
    \/ Settles
    \/ \E text \in {"true", "false"} : ShellSetFailMode(text)
    \/ ParentRerender
    \/ Reload

SpecIntercept == InitIntercept /\ [][NextIntercept]_vars

\* The per-item buttons: every host, every user, lists with and without ids,
\* a stable and an unstable showError; storage works and is empty.
InitButtons ==
    Load(Hosts, {EmptyStorage}, {FALSE}, BOOLEAN, {"array"},
         {{"p1", "p2"}, {"p1", "", Undefined}}, Users, {"present"})

NextButtons ==
    \/ ClickClear
    \/ \E id \in ProductIds : ClickRemove(id)
    \/ \E id \in ProductIds : ClickDelete(id)
    \/ \E u \in Users : ShellSetUser(u)
    \/ ParentRerender
    \/ Reload

SpecButtons == InitButtons /\ [][NextButtons]_vars

\* The two persisted flags: every stored text under both keys, working and
\* failing storage, every shape of the items prop, with and without a user.
InitFlags ==
    Load(Hosts, [StorageKeys -> StoredTexts], BOOLEAN, {TRUE},
         {"undefined", "null", "array"}, {{}, {"p1", ""}},
         {NoUser, FullAccess, User("u4", "string", {"WISHLIST_REMOVE", "WISHLIST_DELETE"})},
         {"present"})

NextFlags ==
    \/ ClickCheckbox
    \/ ClickContinueShopping
    \/ ClickClear
    \/ \E id \in ProductIds : ClickRemove(id)
    \/ \E text \in {"true", "false"} : ShellSetFailMode(text)
    \/ \E text \in {"true", "false"} : StorageEdited(text)
    \/ ParentRerender
    \/ Reload

SpecFlags == InitFlags /\ [][NextFlags]_vars

\* The interceptor and the diagnostic sink: the sink absent and present, the
\* fail-mode entry set and not set, every click target.
InitSink ==
    Load({"admin"},
         {[EmptyStorage EXCEPT ![FAIL_MODE_KEY] = t] : t \in {NoEntry, "true"}},
         {FALSE}, {TRUE}, {"array"}, {{}, {"p1", "p2"}}, {FullAccess}, Sinks)

NextSink ==
    \/ Clicks
    \/ Settles
    \/ \E text \in {"true", "false"} : ShellSetFailMode(text)
    \/ Reload

SpecSink == InitSink /\ [][NextSink]_vars

\* One session of permission evaluations: users with and without id and
\* email, with permissions fields that are missing, empty, unusable and
\* usable, given to a mounted page one after the other.
SessionIdentities ==
    { << "u1", Undefined >>, << "u2", "a@x" >>, << Undefined, "a@x" >>,
      << Undefined, Undefined >> }

SessionPermissions ==
    { NoPermissions, Permissions("null", {}, << >>), ArrayOf({}),
      ArrayOf({Name("EDIT")}), CommaString(<< Blank, Comma >>),
      CommaString(<< "edit" >>), SetOf({NumberMember}) }

SessionUsers ==
    {NoUser} \cup
    { UserRecord(i[1], i[2], p) : i \in SessionIdentities, p \in SessionPermissions }

InitSession ==
    Load({"admin"}, {EmptyStorage}, {FALSE}, {TRUE}, {"array"}, {{"p1"}},
         SessionUsers, Sinks)

NextSession ==
    \/ \E u \in SessionUsers : ShellSetUser(u)
    \/ ShellRefreshUser
    \/ ParentRerender
    \/ Reload

SpecSession == InitSession /\ [][NextSession]_vars

\* The permission functions on every value of the permissions field: every
\* string of up to MaxTextLen lexemes, every array and Set of the members
\* below, and one value of every other shape.
Texts == UNION { [1..n -> Lexemes] : n \in 0..MaxTextLen }

Members ==
    { Name("EDIT"), Name("edit"), Name("WISHLIST_DELETE"),
      StringMember(<< Blank, "EDIT" >>), StringMember(<< >>), NumberMember }

PermissionValues ==
    { CommaString(t) : t \in Texts }
    \cup { ArrayOf(m) : m \in SUBSET Members }
    \cup { SetOf(m) : m \in SUBSET Members }
    \cup { Permissions("map", m, << >>) : m \in {{}, {Name("EDIT")}} }
    \cup { Permissions(shape, {}, << >>) :
             shape \in {"absent", "null", "weakset", "throwingSet", "zero",
                        "number", "object"} }

InitPermissions ==
    Load({"admin", "storefront"}, {EmptyStorage}, {FALSE}, {TRUE}, {"array"}, {{"p1"}},
         {NoUser} \cup { UserRecord("u1", Undefined, p) : p \in PermissionValues },
         {"present"})

NextPermissions ==
    \/ ShellRefreshUser
    \/ ParentRerender
    \/ Reload

SpecPermissions == InitPermissions /\ [][NextPermissions]_vars

----------------------------------------------------------------------------
(* Properties of the click interceptor (SpecIntercept) *)

\* The fail-mode entry holds the JSON boolean true and can be read.
FailModeFlagSet == ~storageFails /\ localStorage[FAIL_MODE_KEY] = "true"

\* The last handler was a click under a button-like element outside every
\* exempt subtree.
QualifyingClick == lastEvent.click /\ lastEvent.actionable /\ ~lastEvent.exempt

\* C1: while the fail-mode flag is set, every click under a non-exempt
\* actionable element has its default prevented, its propagation stopped, and
\* calls none of removeFromWishlist, clearWishlist, addToCart, navigate.
C1_QualifyingClickBlocked ==
    (QualifyingClick /\ FailModeFlagSet) =>
        /\ lastEvent.prevented
        /\ lastEvent.stopped
        /\ lastEvent.calls = << >>

C1_Witness ==
    /\ QualifyingClick
    /\ FailModeFlagSet
    /\ lastEvent.op = "remove"
    /\ lastEvent.id = "p1"
    /\ lastEvent.prevented

\* The catalog entry the k-th blocked click of a page load carries.
RotationEntry(k) ==
    << "LOGIC_001", "LOGIC_002", "LOGIC_003", "LOGIC_004", "LOGIC_005" >>[((k - 1) % 5) + 1]

\* C2: the counter is 0 on load, goes up by exactly one on each blocked click
\* and changes on no other step (no toggle, no re-render), and the k-th blocked
\* click carries entry ((k-1) mod 5)+1 of the catalog.
C2_Rotation ==
    /\ logicalErrorCounter = 0
    /\ [](\A k \in 1..Len(errorLog) : errorLog[k] = RotationEntry(k))
    /\ [][ IF lastEvent'.op = "mount"
           THEN logicalErrorCounter' = 0
           ELSE IF lastEvent'.prevented
                THEN /\ logicalErrorCounter' = logicalErrorCounter + 1
                     /\ Len(errorLog') = Len(errorLog) + 1
                ELSE /\ logicalErrorCounter' = logicalErrorCounter
                     /\ errorLog' = errorLog ]_vars

C2_Witness ==
    /\ Len(errorLog) = 6
    /\ errorLog[5] = "LOGIC_005"
    /\ errorLog[6] = "LOGIC_001"
    /\ logicalErrorCounter = 6
    /\ simulateFailure

\* The callbacks the control under a click calls when nothing stops the event.
NormalCalls(op, id) ==
    CASE op = "remove"           -> << Call("removeFromWishlist", id) >>
      [] op = "delete"           -> << Call("removeFromWishlist", id) >>
      [] op = "moveToCart"       -> << Call("addToCart", id) >>
      [] op = "clear"            -> << Call("clearWishlist", Undefined),
                                       Call("showSuccess", "Wishlist cleared") >>
      [] op = "continueShopping" -> << Call("navigate", "/products") >>
      [] op = "shopNow"          -> << Call("navigate", "/products") >>
      [] OTHER                   -> << >>

\* C3: while the fail-mode flag is unset a click is neither default-prevented
\* nor stopped, leaves the counter alone, logs nothing, and the clicked control
\* does what it does (Remove calls removeFromWishlist with the item's id, the
\* checkbox flips simulateFailure).
C3_NoOpWhenUnset ==
    [][ (lastEvent'.click /\ ~FailModeFlagSet) =>
            /\ ~lastEvent'.prevented
            /\ ~lastEvent'.stopped
            /\ lastEvent'.logged = << >>
            /\ logicalErrorCounter' = logicalErrorCounter
            /\ errorLog' = errorLog
            /\ lastEvent'.calls = NormalCalls(lastEvent'.op, lastEvent'.id)
            /\ (lastEvent'.op = "remove" => lastEvent'.id \notin items')
            /\ (lastEvent'.op = "checkbox" => simulateFailure' = ~simulateFailure) ]_vars

C3_Witness ==
    /\ lastEvent.click
    /\ lastEvent.op = "remove"
    /\ lastEvent.id = "p2"
    /\ localStorage[FAIL_MODE_KEY] = "false"
    /\ lastEvent.calls = << Call("removeFromWishlist", "p2") >>
    /\ items = {"p1"}

\* C4: while the fail-mode flag is set a click inside an exempt subtree is not
\* blocked, leaves the counter alone, and the control does what it does (the
\* Diagnostics checkbox flips simulateFailure).
C4_ExemptClickPasses ==
    [][ (lastEvent'.click /\ lastEvent'.exempt /\ FailModeFlagSet) =>
            /\ ~lastEvent'.prevented
            /\ ~lastEvent'.stopped
            /\ logicalErrorCounter' = logicalErrorCounter
            /\ errorLog' = errorLog
            /\ (lastEvent'.op = "checkbox" => simulateFailure' = ~simulateFailure) ]_vars

C4_Witness ==
    /\ lastEvent.click
    /\ lastEvent.exempt
    /\ lastEvent.actionable
    /\ lastEvent.op = "checkbox"
    /\ FailModeFlagSet
    /\ simulateFailure
    /\ logicalErrorCounter = 2

----------------------------------------------------------------------------
(* Move to cart (SpecIntercept) *)

\* C7: when addToCart fulfils, removeFromWishlist is called with the item's id
\* and then showSuccess('Moved to cart'); when it rejects, removeFromWishlist is
\* not called, the list is as it was, showError('Failed to move item to
\* cart') is called and the handler's promise does not reject; the click
\* itself, before the promise settles, removes nothing.
C7_MoveToCart ==
    [][ /\ (lastEvent'.op = "addToCartResolved" =>
               /\ lastEvent'.calls = << Call("removeFromWishlist", lastEvent'.id),
                                        Call("showSuccess", "Moved to cart") >>
               /\ items' = items \ {lastEvent'.id})
        /\ (lastEvent'.op = "addToCartRejected" =>
               /\ lastEvent'.calls = << Call("showError", "Failed to move item to cart") >>
               /\ items' = items
               /\ ~lastEvent'.rejection)
        /\ (lastEvent'.op = "moveToCart" =>
               /\ items' = items
               /\ \A k \in 1..Len(lastEvent'.calls) :
                      lastEvent'.calls[k].fn # "removeFromWishlist") ]_vars

C7_Witness ==
    /\ lastEvent.op = "addToCartRejected"
    /\ lastEvent.id = "p1"
    /\ items = {"p1", "p2"}
    /\ lastEvent.calls = << Call("showError", "Failed to move item to cart") >>

----------------------------------------------------------------------------
(* The two flags and rendering (SpecFlags) *)

\* C5 as stated: click interception is enabled exactly when list substitution is.
C5_OneFlag == isFailModeOn <=> simulateFailure

\* C5 amended: the page has two independent flags.  simulateFailure (list
\* substitution) is read from its own entry at mount and changes afterwards only
\* when the admin-only Diagnostics checkbox is toggled, which flips it and,
\* storage permitting, persists the new value under its own key; the toggle
\* leaves click interception as it was, and no handler of the page writes the
\* fail-mode entry that click interception reads.
C5_TwoFlags ==
    /\ simulateFailure = (~storageFails /\ localStorage[FAIL_KEY] = "true")
    /\ [][ /\ (simulateFailure' # simulateFailure =>
                  lastEvent'.op \in {"checkbox", "mount"})
           /\ (lastEvent'.op = "mount" =>
                  simulateFailure' = (~storageFails /\ localStorage[FAIL_KEY] = "true"))
           /\ (lastEvent'.op = "checkbox" =>
                  /\ host = "admin"
                  /\ simulateFailure' = ~simulateFailure
                  /\ (~storageFails =>
                         localStorage'[FAIL_KEY] = JSONStringify(simulateFailure'))
                  /\ isFailModeOn' = isFailModeOn)
           /\ (localStorage'[FAIL_MODE_KEY] # localStorage[FAIL_MODE_KEY] =>
                  lastEvent'.op = "shellSetFailMode") ]_vars

C5_Witness ==
    /\ lastEvent.op = "checkbox"
    /\ simulateFailure
    /\ localStorage[FAIL_KEY] = "true"
    /\ localStorage[FAIL_MODE_KEY] = "false"
    /\ ~isFailModeOn

\* C6 as stated: rendering never throws, whatever the list, user, host and flag.
C6_RenderNeverThrows == page = "rendered"

\* C6 amended: rendering throws exactly when simulateFailure is set (the
\* placeholder has a length of 1 and no map method); with the flag unset it
\* never throws, for an absent, empty or non-empty list, every user, every host.
C6_ThrowsIffSimulateFailure == (page = "crashed") <=> simulateFailure

C6_Witness ==
    /\ page = "rendered"
    /\ ~simulateFailure
    /\ host = "admin"
    /\ ~currentUser.present
    /\ items = {"p1", ""}
    /\ inst[""].mounted
    /\ lastEvent.op = "rerender"

----------------------------------------------------------------------------
(* The Remove and Delete buttons (SpecButtons) *)

\* The raw permissions field of the current user is a sequence containing p.
GrantedRaw(p) ==
    /\ currentUser.present
    /\ currentUser.permissions.shape = "array"
    /\ Name(p) \in currentUser.permissions.members

Cards == {id \in ProductIds : page = "rendered" /\ inst[id].mounted}

\* C8: for a rendered item with a valid id, in the admin host the Remove
\* button is shown iff the user's permissions contain WISHLIST_REMOVE, and
\* where it is hidden the button's effect has called showError('Permission
\* denied'); in every other host (marker absent included) it is shown.
C8_RemoveVisibility ==
    \A id \in Cards :
        Truthy(id) =>
            IF host = "admin"
            THEN /\ (inst[id].remove = "Remove") <=> GrantedRaw("WISHLIST_REMOVE")
                 /\ (inst[id].remove = "null" => inst[id].removeDenied)
            ELSE inst[id].remove = "Remove"

C8_Witness ==
    /\ host = "admin"
    /\ "p1" \in Cards
    /\ inst["p1"].remove = "null"
    /\ inst["p1"].removeDenied
    /\ << "remove", "p1" >> \in lastEvent.denied
    /\ currentUser.present
    /\ lastEvent.op = "shellSetUser"

\* C9: the Delete button of a rendered item is shown iff the host is admin and
\* hasPermission(user, "WISHLIST_DELETE") holds.
C9_DeleteVisibility ==
    \A id \in Cards :
        (inst[id].delete = "Delete") <=>
            (host = "admin" /\ GrantedRaw("WISHLIST_DELETE"))

C9_Witness ==
    /\ host = "admin"
    /\ "p1" \in Cards
    /\ inst["p1"].delete = "Delete"
    /\ lastEvent.op = "shellSetUser"

\* C10: an item whose id is missing or empty shows neither a Remove nor a
\* Delete button, in every host and for every user.
C10_NoActionWithoutId ==
    \A id \in Cards :
        ~Truthy(id) => (inst[id].remove = "null" /\ inst[id].delete = "null")

----------------------------------------------------------------------------
(* The Permission-denied effects of the buttons (SpecButtons) *)

\* The Remove button of a card is hidden because WISHLIST_REMOVE is missing.
RemoveHiddenForPermission(id) ==
    /\ host = "admin"
    /\ id \in Cards
    /\ Truthy(id)
    /\ ~GrantedRaw("WISHLIST_REMOVE")

\* The Delete button of a card is hidden because WISHLIST_DELETE is missing.
DeleteHiddenForPermission(id) ==
    /\ host = "admin"
    /\ id \in Cards
    /\ ~GrantedRaw("WISHLIST_DELETE")

\* The operations that are one render pass of the page and nothing else.
RenderOps == {"mount", "rerender", "shellSetUser"}

\* C11 as stated: after every render pass, each button hidden for a missing
\* permission has called showError('Permission denied') and logged in the
\* commit of that pass.
C11_DeniedEveryRender ==
    (page = "rendered" /\ lastEvent.op \in RenderOps) =>
        \A id \in ProductIds :
            /\ RemoveHiddenForPermission(id) => << "remove", id >> \in lastEvent.denied
            /\ DeleteHiddenForPermission(id) => << "delete", id >> \in lastEvent.denied

\* C11, amended: in a render pass a button hidden for a missing permission
\* calls showError and logs exactly when the pass is a mount of the button,
\* the permission was there in the previous pass, or showError is not the
\* reference the previous pass had; a pass with everything unchanged is silent.
C11_DeniedWhenDependencyChanges ==
    [][ (page' = "rendered" /\ lastEvent'.op \in RenderOps) =>
          \A id \in ProductIds :
            /\ RemoveHiddenForPermission(id)' =>
                 ( << "remove", id >> \in lastEvent'.denied <=>
                     \/ lastEvent'.op = "mount"
                     \/ ~inst[id].mounted
                     \/ inst[id].canRemove
                     \/ ~stableNotifier )
            /\ DeleteHiddenForPermission(id)' =>
                 ( << "delete", id >> \in lastEvent'.denied <=>
                     \/ lastEvent'.op = "mount"
                     \/ ~inst[id].mounted
                     \/ inst[id].canDelete
                     \/ ~stableNotifier ) ]_vars

\* A re-render with an unchanged showError: the hidden Remove button of p1 has
\* reported once (at its mount) and stays silent in this pass.
C11_Witness ==
    /\ lastEvent.op = "rerender"
    /\ stableNotifier
    /\ RemoveHiddenForPermission("p1")
    /\ inst["p1"].removeDenied
    /\ << "remove", "p1" >> \notin lastEvent.denied
    /\ DeleteHiddenForPermission("p1")
    /\ << "delete", "p1" >> \notin lastEvent.denied

----------------------------------------------------------------------------
(* The permission resolver (SpecSession, SpecPermissions) *)

\* The pieces of a text that lie between two commas or an end of the text.
Pieces(text) ==
    { SubSeq(text, ij[1], ij[2]) :
        ij \in { p \in (1..(Len(text) + 1)) \X (0..Len(text)) :
                   /\ p[1] <= p[2] + 1
                   /\ \A k \in p[1]..p[2] : text[k] # Comma
                   /\ p[1] = 1 \/ text[p[1] - 1] = Comma
                   /\ p[2] = Len(text) \/ text[p[2] + 1] = Comma } }

\* A piece without the blanks at its two ends.
Stripped(piece) ==
    { SubSeq(piece, ab[1], ab[2]) :
        ab \in { p \in (1..(Len(piece) + 1)) \X (0..Len(piece)) :
                   /\ p[1] <= p[2] + 1
                   /\ \A k \in 1..(p[1] - 1) : piece[k] = Blank
                   /\ \A k \in (p[2] + 1)..Len(piece) : piece[k] = Blank
                   /\ p[1] <= p[2] => piece[p[1]] # Blank /\ piece[p[2]] # Blank } }

\* The permission strings a value of the permissions field names: the string
\* elements of a sequence or a Set, the non-empty stripped pieces of a
\* comma-delimited string; none for null, undefined and every other shape.
NamedBy(permissions) ==
    IF permissions.shape \in {"array", "set"}
    THEN {m \in permissions.members : m.type = "string"}
    ELSE IF permissions.shape = "string"
    THEN { StringMember(t) :
             t \in UNION { Stripped(q) : q \in Pieces(permissions.text) } \ {<< >>} }
    ELSE {}

\* The permission field of a user is null or names no permission string.
Triggers(user) ==
    /\ user.present
    /\ \/ user.permissions.shape \in {"absent", "null"}
       \/ NamedBy(user.permissions) = {}

\* How often the diagnostic for a user key is in a log.
Emitted(log, userKey) ==
    Cardinality({i \in 1..Len(log) : log[i].userKey = userKey})

UserKeys == {"u1", "u2", "a@x", "unknown-user"}

\* A step in which canUserEdit was called: a mount, or a render pass of the
\* mounted page with a new currentUser object.
Evaluation ==
    \/ lastEvent'.op = "mount"
    \/ lastEvent'.op \in {"shellSetUser", "shellRefreshUser"} /\ page = "rendered"

\* C12: in one page load no user key has the missing/invalid-permissions
\* diagnostic more than once; an evaluation of a user whose permission field
\* is null or normalizes to empty leaves that user's key with exactly one
\* diagnostic and every other key as it was; an evaluation of a user with
\* non-empty normalized permissions, or of no user, emits nothing.
C12_OncePerUserKey ==
    /\ [](\A k \in UserKeys : Emitted(diagnostics, k) <= 1)
    /\ [][ Evaluation =>
             LET before == IF lastEvent'.op = "mount" THEN << >> ELSE diagnostics
                 key    == UserKey(currentUser')
             IN  IF Triggers(currentUser')
                 THEN /\ Emitted(diagnostics', key) = 1
                      /\ \A k \in UserKeys \ {key} :
                            Emitted(diagnostics', k) = Emitted(before, k)
                      /\ Len(diagnostics') =
                            Len(before) + (IF Emitted(before, key) = 0 THEN 1 ELSE 0)
                 ELSE diagnostics' = before ]_vars

\* Two keys have their diagnostic, and the user evaluated last, whose key is
\* the first one again with another unusable permissions field, added none.
C12_Witness ==
    /\ lastEvent.op = "shellSetUser"
    /\ currentUser = UserRecord("u1", Undefined, SetOf({NumberMember}))
    /\ Len(diagnostics) = 2
    /\ diagnostics[1].userKey = "u1"
    /\ diagnostics[2].userKey = "unknown-user"
    /\ permissionDiagnosticsSentFor = {"u1", "unknown-user"}

\* C13: normalizePermissions never raises, and returns exactly the permission
\* strings its argument names: for null, undefined and the empty sequence
\* none, for a sequence or a Set its string elements, for a comma-delimited
\* string its pieces with the blanks at their ends removed and the empty ones
\* left out, and for every other shape none.
C13_Normalization ==
    LET n == normalizePermissions(currentUser.permissions)
    IN  /\ ~n.raised
        /\ n.value = NamedBy(currentUser.permissions)

\* The page mounted with the permissions string " EDIT,,".
C13_Witness ==
    /\ lastEvent.op = "mount"
    /\ currentUser.present
    /\ currentUser.permissions =
          CommaString(<< Blank, "EDIT", Comma, Comma >>)
    /\ normalizePermissions(currentUser.permissions).value = {Name("EDIT")}
    /\ canEdit

\* C14: while the page is mounted canEdit is true iff the permission strings
\* the user's field names include "EDIT" in exactly this spelling; it is false
\* without a user and without a permissions field.
C14_CanEdit ==
    page = "rendered" =>
        /\ canEdit <=> (currentUser.present
                          /\ Name("EDIT") \in NamedBy(currentUser.permissions))
        /\ ~currentUser.present => ~canEdit
        /\ currentUser.permissions.shape \in {"absent", "null"} => ~canEdit

\* A user whose permissions name only "edit": canEdit is false.
C14_Witness ==
    /\ page = "rendered"
    /\ lastEvent.op = "shellRefreshUser"
    /\ currentUser.present
    /\ currentUser.permissions = CommaString(<< "edit", Comma, Blank >>)
    /\ ~canEdit

\* C15: hasPermission is true iff the raw permissions field is a sequence
\* with the name among its elements (seen on the Delete button, which asks
\* for WISHLIST_DELETE); for a comma-delimited string or a Set that names the
\* permission it is false, while normalizePermissions finds the name in the
\* same field and canEdit is true for such a field naming EDIT.
C15_RawSequenceOnly ==
    LET p == currentUser.permissions
        sequence(w) == currentUser.present /\ p.shape = "array" /\ Name(w) \in p.members
    IN  /\ \A w \in Words : hasPermission(currentUser, w) <=> sequence(w)
        /\ "p1" \in Cards => (inst["p1"].canDelete <=> sequence("WISHLIST_DELETE"))
        /\ \A w \in Words :
              (currentUser.present /\ p.shape \in {"string", "set"}
                 /\ Name(w) \in NamedBy(p)) =>
                    /\ ~hasPermission(currentUser, w)
                    /\ Name(w) \in normalizePermissions(p).value
                    /\ (w = "WISHLIST_DELETE" /\ "p1" \in Cards
                          => ~inst["p1"].canDelete)
                    /\ (w = "EDIT" /\ page = "rendered" => canEdit)

\* Admin host, permissions "WISHLIST_DELETE,EDIT": no Delete button, canEdit.
C15_Witness ==
    /\ host = "admin"
    /\ "p1" \in Cards
    /\ currentUser.present
    /\ currentUser.permissions = CommaString(<< "WISHLIST_DELETE", Comma, "EDIT" >>)
    /\ inst["p1"].delete = "null"
    /\ ~inst["p1"].canDelete
    /\ canEdit

----------------------------------------------------------------------------
(* Storage failures, list substitution and the life of the flags (SpecFlags) *)

\* C16 as stated: the flag a mount reads is on only for a stored JSON true
\* that could be read, and with failing storage the feature is off, after a
\* toggle of the checkbox too.
C16_FailureLeavesFeatureOff ==
    /\ lastEvent.op = "mount" =>
          (simulateFailure <=> (~storageFails /\ localStorage[FAIL_KEY] = "true"))
    /\ storageFails => ~simulateFailure

\* C16, amended: a mount reads the flag as on only for a stored JSON true that
\* could be read (off for a read that throws, an absent entry, any other
\* text).  A toggle of the checkbox always flips the in-memory flag; with
\* failing storage the entry stays as it was and nothing is raised, so the
\* feature is on for this page load and off again at the next mount.
C16_FailureSwallowed ==
    /\ [](lastEvent.op = "mount" =>
            (simulateFailure <=> (~storageFails /\ localStorage[FAIL_KEY] = "true")))
    /\ [][ lastEvent'.op = "checkbox" =>
             /\ ~lastEvent'.blocked
             /\ ~lastEvent'.raised
             /\ simulateFailure' = ~simulateFailure
             /\ (storageFails => /\ localStorage' = localStorage
                                 /\ ~simulateFailureInitial') ]_vars

\* The checkbox was ticked while storage fails: the flag is on, nothing stored.
C16_Witness ==
    /\ lastEvent.op = "checkbox"
    /\ storageFails
    /\ simulateFailure
    /\ localStorage[FAIL_KEY] = NoEntry
    /\ ~simulateFailureInitial

\* C18 as stated: with the flag set a one-entry placeholder list is rendered,
\* the empty-state view is not shown and Clear is enabled; with the flag unset
\* the rendered list is the real list.
C18_PlaceholderListRendered ==
    IF simulateFailure
    THEN /\ page = "rendered"
         /\ CurrentItems.length = 1
         /\ ~EmptyStateShown
         /\ ClearEnabled
    ELSE /\ page = "rendered"
         /\ Cards = RealList

\* C18, amended: with the flag set effectiveItems is the placeholder of length
\* 1 whatever the real list, isEmpty is false, and the render throws at
\* effectiveItems.map: no card, no empty-state view and no Clear button is
\* shown.  With the flag unset the rendered list is the real list, the
\* empty-state view is shown iff it is empty and Clear is enabled iff it is not.
C18_SubstitutionBreaksList ==
    IF simulateFailure
    THEN /\ CurrentItems.kind = "placeholder"
         /\ CurrentItems.length = 1
         /\ ~isEmpty(CurrentItems)
         /\ page = "crashed"
         /\ Cards = {}
         /\ ~EmptyStateShown
         /\ ~ClearEnabled
    ELSE /\ page = "rendered"
         /\ Cards = RealList
         /\ EmptyStateShown <=> RealList = {}
         /\ ClearEnabled <=> RealList # {}

\* The checkbox was ticked over an empty real list.
C18_Witness ==
    /\ lastEvent.op = "checkbox"
    /\ simulateFailure
    /\ itemsShape = "array"
    /\ items = {}
    /\ page = "crashed"

\* Writes to storage that do not come from the page.
StorageEdits == {"shellSetFailMode", "storageEdited"}

\* C19 as stated: a toggle with working storage leaves the stored value equal
\* to the in-memory flag, a mount starts with the stored value, and a write
\* to storage from outside changes neither list substitution nor click
\* interception of the mounted page.
C19_StorageChangeWithoutEffect ==
    [][ /\ (lastEvent'.op = "checkbox" /\ ~storageFails =>
               /\ localStorage'[FAIL_KEY] = JSONStringify(simulateFailure')
               /\ simulateFailureInitial' = simulateFailure')
        /\ (lastEvent'.op = "mount" => simulateFailure' = simulateFailureInitial)
        /\ (lastEvent'.op \in StorageEdits =>
               /\ simulateFailure' = simulateFailure
               /\ page' = page
               /\ isFailModeOn' = isFailModeOn) ]_vars

\* C19, amended: the simulate-failure flag is read at mount only and stored at
\* each toggle, so with working storage the stored value equals the in-memory
\* flag after a toggle and a mount starts with the stored value; a write to
\* its entry from outside leaves the flag and the rendered page as they are.
\* Click interception has no in-memory flag: each click is blocked or not by
\* what the entry ecommerce_fail_mode holds at that click.
C19_ReadOncePersistOnToggle ==
    [][ /\ (lastEvent'.op = "checkbox" /\ ~storageFails =>
               /\ localStorage'[FAIL_KEY] = JSONStringify(simulateFailure')
               /\ simulateFailureInitial' = simulateFailure')
        /\ (lastEvent'.op = "mount" => simulateFailure' = simulateFailureInitial)
        /\ (lastEvent'.op \in StorageEdits =>
               /\ simulateFailure' = simulateFailure
               /\ page' = page
               /\ inst' = inst)
        /\ (lastEvent'.click /\ lastEvent'.actionable /\ ~lastEvent'.exempt =>
               (lastEvent'.blocked <=> isFailModeOn)) ]_vars

\* A click was blocked in this page load, and the shell has since turned the
\* fail-mode entry off: the page was never reloaded, the flag was never on.
C19_Witness ==
    /\ lastEvent.op = "shellSetFailMode"
    /\ logicalErrorCounter = 1
    /\ ~isFailModeOn
    /\ ~simulateFailure
    /\ page = "rendered"

\* C20: whenever the simulate-failure flag is on in the admin host, the
\* Diagnostics checkbox is rendered (so that it can be unticked).
C20_CheckboxStillRendered ==
    (simulateFailure /\ isAdminHost) => CheckboxRendered

----------------------------------------------------------------------------
(* The interceptor and the diagnostic sink (SpecSink) *)

\* C17: no call of the click interceptor raises, with the sink absent and with
\* it present; the sink is called only where it is present (logMessage, then
\* logException, for a click that is blocked), and a blocked click is logged
\* to the console once.
C17_InterceptorNeverRaises ==
    lastEvent.click =>
        /\ ~lastEvent.raised
        /\ lastEvent.sink = IF lastEvent.blocked /\ zipy = "present"
                            THEN << "logMessage", "logException" >>
                            ELSE << >>
        /\ Len(lastEvent.logged) = IF lastEvent.blocked THEN 1 ELSE 0
        /\ lastEvent.blocked => lastEvent.prevented /\ lastEvent.stopped

\* A click was blocked while window.zipy is undefined.
C17_Witness ==
    /\ lastEvent.click
    /\ lastEvent.blocked
    /\ zipy = "absent"
    /\ lastEvent.sink = << >>
    /\ ~lastEvent.raised
    /\ lastEvent.logged = << "LOGIC_001" >>

----------------------------------------------------------------------------
(* Overlapping Move-to-cart interactions (SpecIntercept) *)

\* The addToCart promises for a product that have not settled.
InFlight(id) == Cardinality({i \in 1..Len(pending) : pending[i] = id})

\* C21: for every item at most one addToCart call is in flight, and
\* handleMoveToCart has called removeFromWishlist for it at most once,
\* whatever was clicked and in whatever order the promises settled.
C21_OneMovePerItem ==
    \A id \in ProductIds :
        /\ InFlight(id) <= 1
        /\ moveRemovals[id] <= 1

====
